---- MODULE Spec2Model ----
(***************************************************************************)
(* Model of scripts/fetch_metrics.py: the publication-metrics pipeline     *)
(* main() = normalize_author_id -> fetch -> dedupe_works -> normalize_work *)
(* -> sort -> aggregate -> write.                                          *)
(*                                                                         *)
(* Python values are tagged records (None, int, str, list, dict); a Python *)
(* str is a sequence of one-character strings, so strip/lower/replace are  *)
(* computed character by character.  An uncaught exception is the value    *)
(* Raise, propagated by every caller up to main, where the run crashes.    *)
(***************************************************************************)
EXTENDS Integers, Sequences, FiniteSets, TLC

VARIABLES
    env,                \* os.environ["OPENALEX_AUTHOR_ID"]: PyNone when unset, else a str
    api,                \* what the OpenAlex API answers: [ok, results]
    pc,                 \* position of main()
    author_id,          \* main.author_id
    raw_works,          \* main.works after fetch_all_works_for_author (line 448)
    works,              \* main.works after dedupe_works (line 449)
    papers,             \* main.papers
    total_citations,    \* main.total_citations
    citations_by_year,  \* main.citations_by_year
    metrics_file,       \* data/metrics.json: PyNone until written
    traceback           \* the call of main an uncaught exception came out of, "" if none

vars == <<env, api, pc, author_id, raw_works, works, papers,
          total_citations, citations_by_year, metrics_file, traceback>>

-----------------------------------------------------------------------------
(* Python values *)

PyNone == [t |-> "none"]
Raise == [t |-> "raise"]
PyInt(n) == [t |-> "int", i |-> n]
PyStr(s) == [t |-> "str", s |-> s]
PyList(l) == [t |-> "list", l |-> l]
PyDict(d) == [t |-> "dict", d |-> d]
PyBool(b) == [t |-> "bool", b |-> b]
EmptyDict == PyDict([k \in {} |-> PyNone])

IsNone(v) == v.t = "none"
IsRaise(v) == v.t = "raise"
IsInt(v) == v.t = "int"
IsStr(v) == v.t = "str"
IsList(v) == v.t = "list"
IsDict(v) == v.t = "dict"

\* F on the value v, computed once
Bind(v, F(_)) == F(v)
\* F on the value v, unless computing v raised: the exception goes through
Try(v, F(_)) == IF IsRaise(v) THEN Raise ELSE F(v)

\* bool(v)
Truthy(v) ==
    CASE v.t = "none" -> FALSE
      [] v.t = "int" -> v.i # 0
      [] v.t = "bool" -> v.b
      [] v.t = "str" -> v.s # <<>>
      [] v.t = "list" -> v.l # <<>>
      [] v.t = "dict" -> DOMAIN v.d # {}
      [] OTHER -> FALSE

\* a or b: b is evaluated only when a is falsy; an exception raised by a goes through
Or(a, b) == IF IsRaise(a) \/ Truthy(a) THEN a ELSE b

\* v.get(k): AttributeError on a value that has no .get; an exception raised while
\* computing v goes through
Get(v, k) ==
    IF IsDict(v)
    THEN IF k \in DOMAIN v.d THEN v.d[k] ELSE PyNone
    ELSE Raise

-----------------------------------------------------------------------------
(* str methods, on sequences of characters *)

UpperChars == <<"A","B","C","D","E","F","G","H","I","J","K","L","M",
                "N","O","P","Q","R","S","T","U","V","W","X","Y","Z">>
LowerChars == <<"a","b","c","d","e","f","g","h","i","j","k","l","m",
                "n","o","p","q","r","s","t","u","v","w","x","y","z">>
Digits == <<"0","1","2","3","4","5","6","7","8","9">>

Range(f) == {f[i] : i \in DOMAIN f}
IndexOf(f, c) == CHOOSE i \in DOMAIN f : f[i] = c

LowerChar(c) == IF c \in Range(UpperChars) THEN LowerChars[IndexOf(UpperChars, c)] ELSE c
UpperChar(c) == IF c \in Range(LowerChars) THEN UpperChars[IndexOf(LowerChars, c)] ELSE c
IsSpace(c) == c \in {" ", "\t", "\n"}
IsDigit(c) == c \in Range(Digits)
IsAlpha(c) == c \in Range(UpperChars) \cup Range(LowerChars)
\* \w of the re module
IsWord(c) == IsAlpha(c) \/ IsDigit(c) \/ c = "_"

Lower(s) == [i \in 1..Len(s) |-> LowerChar(s[i])]
Upper(s) == [i \in 1..Len(s) |-> UpperChar(s[i])]

RECURSIVE LStrip(_)
LStrip(s) == IF s # <<>> /\ IsSpace(Head(s)) THEN LStrip(Tail(s)) ELSE s
RECURSIVE RStrip(_)
RStrip(s) ==
    IF s # <<>> /\ IsSpace(s[Len(s)]) THEN RStrip(SubSeq(s, 1, Len(s) - 1)) ELSE s
Strip(s) == RStrip(LStrip(s))

StartsWith(s, p) == Len(s) >= Len(p) /\ SubSeq(s, 1, Len(p)) = p

\* s.replace(old, ""): every non-overlapping occurrence, scanning left to right
RECURSIVE Remove(_, _)
Remove(s, old) ==
    IF s = <<>> THEN <<>>
    ELSE IF StartsWith(s, old) THEN Remove(SubSeq(s, Len(old) + 1, Len(s)), old)
    ELSE <<Head(s)>> \o Remove(Tail(s), old)

\* s.lstrip(chars) for a one-character set
RECURSIVE LStripChar(_, _)
LStripChar(s, c) == IF s # <<>> /\ Head(s) = c THEN LStripChar(Tail(s), c) ELSE s

\* " ".join(s.split()): runs of whitespace become one blank, none at the ends
RECURSIVE CollapseSpaces(_)
CollapseSpaces(s) ==
    LET t == LStrip(s) IN
    IF t = <<>> THEN <<>>
    ELSE IF IsSpace(Head(t)) THEN CollapseSpaces(t)
    ELSE IF Len(t) >= 2 /\ IsSpace(t[2])
         THEN LET rest == CollapseSpaces(Tail(t)) IN
              IF rest = <<>> THEN <<Head(t)>> ELSE <<Head(t), " ">> \o rest
         ELSE <<Head(t)>> \o CollapseSpaces(Tail(t))

\* str(n) for an int
RECURSIVE NatStr(_)
NatStr(n) == IF n < 10 THEN <<Digits[n + 1]>> ELSE NatStr(n \div 10) \o <<Digits[(n % 10) + 1]>>
IntStr(n) == IF n < 0 THEN <<"-">> \o NatStr(0 - n) ELSE NatStr(n)

\* int(s) for a str: optional sign and digits between optional blanks, else ValueError
RECURSIVE DigitsVal(_)
DigitsVal(s) ==
    IF s = <<>> THEN 0
    ELSE DigitsVal(SubSeq(s, 1, Len(s) - 1)) * 10 + (IndexOf(Digits, s[Len(s)]) - 1)
ParseInt(s) ==
    LET t == Strip(s)
        neg == t # <<>> /\ Head(t) = "-"
        body == IF t # <<>> /\ Head(t) \in {"-", "+"} THEN Tail(t) ELSE t
    IN IF body # <<>> /\ \A i \in 1..Len(body) : IsDigit(body[i])
       THEN PyInt(IF neg THEN 0 - DigitsVal(body) ELSE DigitsVal(body))
       ELSE Raise

\* int(x): TypeError on None, list and dict
int(x) ==
    CASE IsInt(x) -> x
      [] x.t = "bool" -> PyInt(IF x.b THEN 1 ELSE 0)
      [] IsStr(x) -> ParseInt(x.s)
      [] OTHER -> Raise

\* str(x); the repr of a container is abbreviated to its brackets
str(x) ==
    CASE IsStr(x) -> x.s
      [] IsInt(x) -> IntStr(x.i)
      [] IsNone(x) -> <<"N","o","n","e">>
      [] x.t = "bool" -> IF x.b THEN <<"T","r","u","e">> ELSE <<"F","a","l","s","e">>
      [] IsList(x) -> <<"[","]">>
      [] OTHER -> <<"{","}">>

-----------------------------------------------------------------------------
(* String constants of the program *)

OPENALEX_PREFIX == <<"h","t","t","p","s",":","/","/","o","p","e","n","a","l","e","x",".","o","r","g","/">>
DOI_HTTPS == <<"h","t","t","p","s",":","/","/","d","o","i",".","o","r","g","/">>
DOI_HTTP == <<"h","t","t","p",":","/","/","d","o","i",".","o","r","g","/">>
DOI_SCHEME == <<"d","o","i",":">>
HAL_PMH == <<"p","m","h",":","o","a","i",":","H","A","L",":">>
HTTP == <<"h","t","t","p">>
UNTITLED == <<"U","n","t","i","t","l","e","d">>
\* the one-character placeholder U+2014, written here as a single token
EM_DASH == <<"--">>
UNKNOWN == <<"u","n","k","n","o","w","n">>
HAL_DOT == <<"h","a","l",".">>
HASH == <<"#">>
REPOSITORY == <<"r","e","p","o","s","i","t","o","r","y">>
DEFAULT_AUTHOR_ID == <<"A","5","0","4","2","5","7","8","7","9","0">>

-----------------------------------------------------------------------------
(* normalize_author_id *)

normalize_author_id(raw) ==
    Bind(Upper(Strip(Remove(Strip((Or(raw, PyStr(<<>>))).s), OPENALEX_PREFIX))),
         LAMBDA r : IF r = <<>> THEN Raise
                    ELSE IF StartsWith(r, <<"A">>) THEN PyStr(r)
                    ELSE PyStr(<<"A">> \o LStripChar(r, "A")))

-----------------------------------------------------------------------------
(* DOI normalisation used for the identity key *)

\* d or None
OrNone(d) == IF d = <<>> THEN PyNone ELSE PyStr(d)

_norm_doi(doi) ==
    IF ~Truthy(doi) THEN PyNone
    ELSE OrNone(Remove(Remove(Remove(Lower(Strip(doi.s)), DOI_HTTPS), DOI_HTTP),
                       DOI_SCHEME))

_get_doi(work) ==
    IF IsStr(Get(work, "doi")) THEN _norm_doi(Get(work, "doi"))
    ELSE Bind(Or(Get(work, "ids"), EmptyDict),
              LAMBDA ids : IF IsDict(ids) /\ IsStr(Get(ids, "doi"))
                           THEN _norm_doi(Get(ids, "doi"))
                           ELSE PyNone)

-----------------------------------------------------------------------------
(* Repository id, fuzzy title and first author used for the identity key *)

IsHalId(v) == IsStr(v) /\ StartsWith(v.s, HAL_PMH)

\* the loop over work["locations"] of _get_hal_id
RECURSIVE HalScan(_)
HalScan(locs) ==
    IF locs = <<>> THEN PyNone
    ELSE Try(Get(Head(locs), "id"),
             LAMBDA loc_id : IF IsHalId(loc_id) THEN loc_id ELSE HalScan(Tail(locs)))

\* iterating a truthy value that is no list raises, at the latest on its first item
_get_hal_id(work) ==
    Try(Bind(Or(Get(work, "locations"), PyList(<<>>)),
             LAMBDA locs : IF IsList(locs) THEN HalScan(locs.l) ELSE Raise),
        LAMBDA found :
            IF ~IsNone(found) THEN found
            ELSE Try(Get(Or(Get(work, "primary_location"), EmptyDict), "id"),
                     LAMBDA pl_id : IF IsHalId(pl_id) THEN pl_id ELSE PyNone))

RECURSIVE DropDigits(_)
DropDigits(s) == IF s # <<>> /\ IsDigit(Head(s)) THEN DropDigits(Tail(s)) ELSE s

\* what follows the digits of a leading enumerator, when t starts with one
AfterEnumerator(t, rest) ==
    IF Len(rest) < Len(LStrip(t)) /\ LStrip(rest) # <<>>
       /\ Head(LStrip(rest)) \in {".", "-", ":", ")"}
    THEN LStrip(Tail(LStrip(rest)))
    ELSE t

\* re.sub(r"^\s*\d+\s*[\.\-:\)]\s*", "", t)
StripEnumerator(t) == AfterEnumerator(t, DropDigits(LStrip(t)))

\* re.sub(r"\s+", " ", t)
RECURSIVE SquashSpaces(_)
SquashSpaces(t) ==
    IF t = <<>> THEN <<>>
    ELSE IF IsSpace(Head(t)) THEN <<" ">> \o SquashSpaces(LStrip(t))
    ELSE <<Head(t)>> \o SquashSpaces(Tail(t))

\* re.sub(r"[^\w\s]", "", t)
IsWordOrSpace(c) == IsWord(c) \/ IsSpace(c)
RemovePunctuation(t) == SelectSeq(t, IsWordOrSpace)

\* the result is a str, or Raise when title has no .lower()
_norm_title(title) ==
    IF ~Truthy(title) THEN PyStr(<<>>)
    ELSE IF ~IsStr(title) THEN Raise
    ELSE PyStr(Strip(RemovePunctuation(SquashSpaces(
             StripEnumerator(Strip(Lower(title.s)))))))

\* auths[0] of a truthy value that is no list has no .get, or is no item at all
_first_author(work) ==
    Bind(Or(Get(work, "authorships"), PyList(<<>>)),
         LAMBDA auths :
            IF ~Truthy(auths) THEN PyStr(<<>>)
            ELSE IF ~IsList(auths) THEN Raise
            ELSE Try(Get(Or(Get(auths.l[1], "author"), EmptyDict), "display_name"),
                     LAMBDA name : PyStr(Lower(Strip(str(Or(name, PyStr(<<>>))))))))

-----------------------------------------------------------------------------
(* sorted(), on items [key, val] whose keys are tuples of ints *)

RECURSIVE TupleLess(_, _)
TupleLess(a, b) ==
    IF a = <<>> THEN b # <<>>
    ELSE IF b = <<>> THEN FALSE
    ELSE IF Head(a) # Head(b) THEN Head(a) < Head(b)
    ELSE TupleLess(Tail(a), Tail(b))

\* x goes behind every item that does not compare below it: equal keys keep their order
RECURSIVE InsertDesc(_, _)
InsertDesc(s, x) ==
    IF s = <<>> THEN <<x>>
    ELSE IF TupleLess(Head(s).key, x.key) THEN <<x>> \o s
    ELSE <<Head(s)>> \o InsertDesc(Tail(s), x)

\* sorted(items, key=..., reverse=True)
RECURSIVE SortedReverse(_)
SortedReverse(items) ==
    IF items = <<>> THEN <<>>
    ELSE InsertDesc(SortedReverse(SubSeq(items, 1, Len(items) - 1)), items[Len(items)])

RECURSIVE InsertAsc(_, _)
InsertAsc(s, x) ==
    IF s = <<>> THEN <<x>>
    ELSE IF TupleLess(x.key, Head(s).key) THEN <<x>> \o s
    ELSE <<Head(s)>> \o InsertAsc(Tail(s), x)

\* sorted(items, key=...)
RECURSIVE Sorted(_)
Sorted(items) ==
    IF items = <<>> THEN <<>>
    ELSE InsertAsc(Sorted(SubSeq(items, 1, Len(items) - 1)), items[Len(items)])

Vals(items) == [i \in 1..Len(items) |-> items[i].val]

-----------------------------------------------------------------------------
(* dedupe_works *)

Key(tag, v) == [t |-> "key", tag |-> tag, v |-> v]

\* as IdentityKey, with the title key tried before the DOI
IdentityKey_title_first(w) ==
    Try(_norm_title(Or(Get(w, "title"), Get(w, "display_name"))), LAMBDA title :
        IF title.s # <<>>
        THEN Try(_first_author(w), LAMBDA author :
                 Key("fuzzy", title.s \o <<"|">> \o str(Get(w, "publication_year"))
                              \o <<"|">> \o author.s))
        ELSE Bind(_get_doi(w), LAMBDA doi :
                 IF Truthy(doi) THEN Key("doi", doi.s) ELSE Key("fuzzy", <<>>)))

\* the key of one record: lines 402-411 of the loop
IdentityKey(w) ==
    Bind(_get_doi(w), LAMBDA doi :
        IF Truthy(doi) THEN Key("doi", doi.s)
        ELSE Try(_get_hal_id(w), LAMBDA hal :
            IF Truthy(hal) THEN Key("hal", hal.s)
            ELSE Try(_norm_title(Or(Get(w, "title"), Get(w, "display_name"))),
                     LAMBDA title :
                Try(_first_author(w), LAMBDA author :
                    Key("fuzzy", title.s \o <<"|">> \o str(Get(w, "publication_year"))
                                 \o <<"|">> \o author.s)))))

\* as Append_bucket, but a record joins only the bucket opened last (grouping adjacent
\* records, as a run-length grouping would)
Append_bucket_adjacent(buckets, key, w) ==
    IF buckets # <<>> /\ buckets[Len(buckets)].key = key
    THEN [i \in 1..Len(buckets) |->
             IF i = Len(buckets)
             THEN [key |-> key, group |-> Append(buckets[i].group, w)]
             ELSE buckets[i]]
    ELSE Append(buckets, [key |-> key, group |-> <<w>>])

\* buckets.setdefault(key, []).append(w): buckets keep the order their keys first came in
Append_bucket(buckets, key, w) ==
    IF \E i \in 1..Len(buckets) : buckets[i].key = key
    THEN [i \in 1..Len(buckets) |->
             IF buckets[i].key = key
             THEN [key |-> key, group |-> Append(buckets[i].group, w)]
             ELSE buckets[i]]
    ELSE Append(buckets, [key |-> key, group |-> <<w>>])

\* the first loop of dedupe_works; Raise when a key cannot be derived
RECURSIVE Buckets(_)
Buckets(ws) ==
    IF ws = <<>> THEN PyList(<<>>)
    ELSE Try(Buckets(SubSeq(ws, 1, Len(ws) - 1)), LAMBDA before :
             Try(IdentityKey(ws[Len(ws)]), LAMBDA key :
                 PyList(Append_bucket(before.l, key, ws[Len(ws)]))))

Score(s) == [t |-> "score", v |-> s]

\* the source of the location score looks at
ScoredSource(work) ==
    Bind(Or(Or(Get(work, "best_oa_location"), Get(work, "primary_location")), EmptyDict),
         LAMBDA loc : IF IsDict(loc) THEN Or(Get(loc, "source"), EmptyDict) ELSE EmptyDict)

\* as score, with the publisher bonus ranked before the citation count
score_bonus_first(work) ==
    Try(int(Or(Get(work, "cited_by_count"), PyInt(0))), LAMBDA cites :
        Try(Get(ScoredSource(work), "type"), LAMBDA type :
            Score(<<IF Truthy(_get_doi(work)) THEN 1 ELSE 0,
                    IF Lower(str(Or(type, PyStr(<<>>)))) = REPOSITORY THEN 0 ELSE 1,
                    cites.i>>)))

score(work) ==
    Try(int(Or(Get(work, "cited_by_count"), PyInt(0))), LAMBDA cites :
        Try(Get(ScoredSource(work), "type"), LAMBDA type :
            LET has_doi == IF Truthy(_get_doi(work)) THEN 1 ELSE 0
                src_type == Lower(str(Or(type, PyStr(<<>>))))
                is_repo == IF src_type = REPOSITORY THEN 1 ELSE 0
                publisher_bonus == 1 - is_repo
            IN Score(<<has_doi, cites.i, publisher_bonus>>)))

\* sorted(group, key=score, reverse=True)[0]
Winner(group) ==
    Bind([i \in 1..Len(group) |-> score(group[i])], LAMBDA keys :
        IF \E i \in 1..Len(keys) : IsRaise(keys[i]) THEN Raise
        ELSE SortedReverse([i \in 1..Len(group) |->
                               [key |-> keys[i].v, val |-> group[i]]])[1].val)

\* the body of the second loop of dedupe_works
GroupWinner(group) == IF Len(group) = 1 THEN group[1] ELSE Winner(group)

\* the second loop of dedupe_works
RECURSIVE Winners(_)
Winners(buckets) ==
    IF buckets = <<>> THEN PyList(<<>>)
    ELSE Try(Winners(SubSeq(buckets, 1, Len(buckets) - 1)), LAMBDA deduped :
             Try(GroupWinner(buckets[Len(buckets)].group), LAMBDA winner :
                 PyList(Append(deduped.l, winner))))

\* works is a sequence of raw records; the result is a list value or Raise
dedupe_works(ws) == Try(Buckets(ws), LAMBDA buckets : Winners(buckets.l))

-----------------------------------------------------------------------------
(* Helpers of normalize_work *)

_safe_int(x) == Bind(int(x), LAMBDA r : IF IsRaise(r) THEN PyNone ELSE r)

\* isinstance(v, str) and v.strip()
IsNonBlankStr(v) == IsStr(v) /\ Strip(v.s) # <<>>
IsHttpStr(v) == IsStr(v) /\ StartsWith(v.s, HTTP)

\* lines 160-166 of pick_best_url
OpenAlexUrl(wid) ==
    IF IsHttpStr(wid) THEN wid
    ELSE IF IsStr(wid) THEN PyStr(OPENALEX_PREFIX \o Remove(wid.s, OPENALEX_PREFIX))
    ELSE PyStr(HASH)

pick_best_url(work) ==
    Try(Get(Or(Get(work, "ids"), EmptyDict), "doi"), LAMBDA doi_url :
        IF IsHttpStr(doi_url) THEN doi_url
        ELSE Try(Get(Or(Get(work, "primary_location"), EmptyDict), "landing_page_url"),
                 LAMBDA landing :
                     IF IsHttpStr(landing) THEN landing
                     ELSE OpenAlexUrl(Get(work, "id"))))

\* work[location]["source"]["display_name"], each level defaulting to {}
SourceName(work, location) ==
    Get(Or(Get(Or(Get(work, location), EmptyDict), "source"), EmptyDict), "display_name")

extract_venue(work) ==
    Try(SourceName(work, "primary_location"), LAMBDA name :
        IF IsNonBlankStr(name) THEN PyStr(Strip(name.s))
        ELSE Try(SourceName(work, "best_oa_location"), LAMBDA name2 :
                 IF IsNonBlankStr(name2) THEN PyStr(Strip(name2.s))
                 ELSE PyStr(EM_DASH)))

\* _HAL_RE.search(u): "hal." at a word boundary, followed by a word character
HalMatch(u) ==
    \E i \in 1..Len(u) :
        /\ i + 4 <= Len(u)
        /\ Lower(SubSeq(u, i, i + 3)) = HAL_DOT
        /\ (i = 1 \/ ~IsWord(u[i - 1]))
        /\ IsWord(u[i + 4])

IsHalUrl(v) == IsStr(v) /\ v.s # <<>> /\ HalMatch(v.s)

\* the first candidate that matches, after every field has been read
FirstHalUrl(candidates) ==
    IF \E i \in 1..Len(candidates) : IsRaise(candidates[i]) THEN Raise
    ELSE IF \E i \in 1..Len(candidates) : IsHalUrl(candidates[i])
    THEN candidates[CHOOSE i \in 1..Len(candidates) :
                        /\ IsHalUrl(candidates[i])
                        /\ \A j \in 1..(i - 1) : ~IsHalUrl(candidates[j])]
    ELSE PyNone

HalCandidates(ids, loc, hv) ==
    <<Get(ids, "openalex"), Get(ids, "doi"), Get(ids, "pmid"), Get(ids, "pmcid"),
      Get(ids, "mag"), Get(loc, "landing_page_url"), Get(loc, "pdf_url"), Get(hv, "url")>>

try_find_hal_url(work) ==
    FirstHalUrl(HalCandidates(Or(Get(work, "ids"), EmptyDict),
                              Or(Get(work, "primary_location"), EmptyDict),
                              Or(Get(work, "host_venue"), EmptyDict)))

extract_oa_status(work) ==
    Try(Get(Or(Get(work, "open_access"), EmptyDict), "oa_status"), LAMBDA s :
        IF IsNonBlankStr(s) THEN PyStr(Lower(Strip(s.s))) ELSE PyStr(UNKNOWN))

extract_is_oa(work) ==
    Try(Get(Or(Get(work, "open_access"), EmptyDict), "is_oa"), LAMBDA v :
        IF v.t = "bool" THEN v ELSE PyBool(FALSE))

\* ord(c), for the characters the model uses
CharCode(c) ==
    CASE IsDigit(c) -> 47 + IndexOf(Digits, c)
      [] c \in Range(UpperChars) -> 64 + IndexOf(UpperChars, c)
      [] c \in Range(LowerChars) -> 96 + IndexOf(LowerChars, c)
      [] c = " " -> 32
      [] c = "-" -> 45
      [] c = "." -> 46
      [] c = "/" -> 47
      [] c = ":" -> 58
      [] OTHER -> 63

\* x.get("score", 0) as a sort key: Raise when x has no .get
ScoreOf(x) ==
    IF ~IsDict(x) THEN Raise
    ELSE IF "score" \in DOMAIN x.d THEN x.d["score"] ELSE PyInt(0)

\* list.sort needs every pair of keys it compares to be ordered: ints (and bools) among
\* themselves, strs among themselves; None is ordered with nothing.  A list of fewer
\* than two items compares nothing.
Comparable(keys) ==
    \/ Len(keys) < 2
    \/ \A i \in 1..Len(keys) : keys[i].t \in {"int", "bool"}
    \/ \A i \in 1..Len(keys) : keys[i].t = "str"

SortKey(k) ==
    IF IsStr(k) THEN [i \in 1..Len(k.s) |-> CharCode(k.s[i])]
    ELSE IF k.t \in {"int", "bool"} THEN <<int(k).i>>
    ELSE <<0>>

\* s[:n]
Prefix(s, n) == SubSeq(s, 1, IF Len(s) < n THEN Len(s) ELSE n)

\* sorted(entries, key=lambda x: x.get("score", 0), reverse=True)[:top_k]
TopByScore(entries, top_k) ==
    Bind([i \in 1..Len(entries) |-> ScoreOf(entries[i])], LAMBDA keys :
        IF \E i \in 1..Len(keys) : IsRaise(keys[i]) THEN Raise
        ELSE IF ~Comparable(keys) THEN Raise
        ELSE PyList(Prefix(Vals(SortedReverse([i \in 1..Len(entries) |->
                        [key |-> SortKey(keys[i]), val |-> entries[i]]])), top_k)))

\* the display name of one ranked entry, or nothing
DisplayName(name) == IF IsNonBlankStr(name) THEN <<PyStr(Strip(name.s))>> ELSE <<>>

\* the display names of the entries, blank and non-str names skipped
RECURSIVE DisplayNames(_)
DisplayNames(entries) ==
    IF entries = <<>> THEN <<>>
    ELSE DisplayName(Get(Or(Head(entries), EmptyDict), "display_name"))
         \o DisplayNames(Tail(entries))

\* the body shared by extract_topics and extract_keywords
ExtractRanked(entries, top_k) ==
    IF ~IsList(entries) THEN PyList(<<>>)
    ELSE Try(TopByScore(entries.l, top_k), LAMBDA top : PyList(DisplayNames(top.l)))

extract_topics(work, top_k) == ExtractRanked(Or(Get(work, "topics"), PyList(<<>>)), top_k)
extract_keywords(work, top_k) == ExtractRanked(Or(Get(work, "keywords"), PyList(<<>>)), top_k)

\* str.title(): a letter is upper-case exactly when no letter precedes it
Title(s) ==
    [i \in 1..Len(s) |->
        IF i = 1 \/ ~IsAlpha(s[i - 1]) THEN UpperChar(s[i]) ELSE LowerChar(s[i])]

\* NFKD and the removal of combining marks leave the model's ASCII characters alone
normalize_person_name(name) == IF name = <<>> THEN <<>> ELSE Title(CollapseSpaces(name))

\* the body of the loop of extract_coauthors: the names one authorship adds
CoauthorName(au, self_author_id) ==
    Try(Get(au, "id"), LAMBDA aid :
        Bind(Get(au, "display_name"), LAMBDA raw_name :
            IF IsStr(aid) /\ Remove(aid.s, OPENALEX_PREFIX) = self_author_id
            THEN PyList(<<>>)
            ELSE IF IsNonBlankStr(raw_name)
            THEN PyList(<<PyStr(normalize_person_name(raw_name.s))>>)
            ELSE PyList(<<>>)))

RECURSIVE CoauthorNames(_, _)
CoauthorNames(auths, self_author_id) ==
    IF auths = <<>> THEN PyList(<<>>)
    ELSE Try(CoauthorName(Or(Get(Or(Head(auths), EmptyDict), "author"), EmptyDict),
                          self_author_id),
             LAMBDA names :
                 Try(CoauthorNames(Tail(auths), self_author_id),
                     LAMBDA rest : PyList(names.l \o rest.l)))

CoauthorsOf(auths, self_author_id) ==
    IF ~IsList(auths) THEN PyList(<<>>) ELSE CoauthorNames(auths.l, self_author_id)

extract_coauthors(work, self_author_id) ==
    CoauthorsOf(Or(Get(work, "authorships"), PyList(<<>>)), self_author_id)

-----------------------------------------------------------------------------
(* normalize_work *)

\* x.strip() or dflt, Raise when x has no .strip()
StripOrDefault(x, dflt) ==
    IF ~IsStr(x) THEN Raise
    ELSE IF Strip(x.s) = <<>> THEN PyStr(dflt) ELSE PyStr(Strip(x.s))

\* (v or "").strip() or dflt
StripOr(v, dflt) == StripOrDefault(Or(v, PyStr(<<>>)), dflt)

\* lines 295-298
StripDoi(doi) ==
    IF IsRaise(doi) THEN Raise
    ELSE IF IsStr(doi) THEN PyStr(Remove(Strip(doi.s), DOI_HTTPS))
    ELSE PyNone

\* lines 293-298: the doi field of the canonical work
CanonicalDoi(work) ==
    StripDoi(Or(Get(work, "doi"), Get(Or(Get(work, "ids"), EmptyDict), "doi")))

\* lines 300-304
CanonicalId(openalex_id) ==
    IF IsStr(openalex_id) THEN PyStr(Remove(openalex_id.s, OPENALEX_PREFIX)) ELSE PyNone

TOPICS_TOP_K == 3
KEYWORDS_TOP_K == 10

\* the dict, unless computing one of its values raised
DictOrRaise(fields) ==
    IF \E f \in DOMAIN fields : IsRaise(fields[f]) THEN Raise ELSE PyDict(fields)

\* fwci (a float) and the constant "source" are left out of the record; _safe_float
\* cannot raise
normalize_work(work, self_author_id) ==
    DictOrRaise([
        id |-> CanonicalId(Get(work, "id")),
        title |-> StripOr(Get(work, "title"), UNTITLED),
        year |-> _safe_int(Get(work, "publication_year")),
        venue |-> extract_venue(work),
        citations |-> Or(_safe_int(Get(work, "cited_by_count")), PyInt(0)),
        doi |-> CanonicalDoi(work),
        url |-> pick_best_url(work),
        hal_url |-> try_find_hal_url(work),
        type |-> StripOr(Or(Get(work, "type"), Get(work, "type_crossref")), EM_DASH),
        is_oa |-> extract_is_oa(work),
        oa_status |-> extract_oa_status(work),
        citation_norm_percentile |->
            Get(Or(Get(work, "citation_normalized_percentile"), EmptyDict), "value"),
        topics |-> extract_topics(work, TOPICS_TOP_K),
        keywords |-> extract_keywords(work, KEYWORDS_TOP_K),
        coauthors |-> extract_coauthors(work, self_author_id)])

\* [normalize_work(w, self_author_id=author_id) for w in works]
RECURSIVE NormalizeAll(_, _)
NormalizeAll(ws, self_author_id) ==
    IF ws = <<>> THEN PyList(<<>>)
    ELSE Try(normalize_work(Head(ws), self_author_id), LAMBDA p :
             Try(NormalizeAll(Tail(ws), self_author_id), LAMBDA rest :
                 PyList(<<p>> \o rest.l)))

-----------------------------------------------------------------------------
(* Aggregation and the final ordering *)

\* as AddToYear, with the sum of a year overwritten (by_year[y] = c)
AddToYear_overwrite(by_year, y, c) ==
    IF \E i \in 1..Len(by_year) : by_year[i].year = y
    THEN [i \in 1..Len(by_year) |->
             IF by_year[i].year = y THEN [year |-> y, citations |-> c] ELSE by_year[i]]
    ELSE Append(by_year, [year |-> y, citations |-> c])

\* by_year[y] = by_year.get(y, 0) + c: a dict keeps its keys in the order they came in
AddToYear(by_year, y, c) ==
    IF \E i \in 1..Len(by_year) : by_year[i].year = y
    THEN [i \in 1..Len(by_year) |->
             IF by_year[i].year = y
             THEN [year |-> y, citations |-> by_year[i].citations + c]
             ELSE by_year[i]]
    ELSE Append(by_year, [year |-> y, citations |-> c])

\* the body of the loop of build_citations_by_year
AddPaper(by_year, y, c) ==
    IF y.t \notin {"int", "bool"} THEN PyList(by_year)
    ELSE Try(int(c), LAMBDA n : PyList(AddToYear(by_year, int(y).i, n.i)))

\* by_year after the loop of build_citations_by_year, or Raise
RECURSIVE ByYear(_)
ByYear(ps) ==
    IF ps = <<>> THEN PyList(<<>>)
    ELSE Try(ByYear(SubSeq(ps, 1, Len(ps) - 1)), LAMBDA before :
             Try(Get(ps[Len(ps)], "year"), LAMBDA y :
                 AddPaper(before.l, y, Or(Get(ps[Len(ps)], "citations"), PyInt(0)))))

\* [{"year": y, "citations": by_year[y]} for y in sorted(by_year.keys())]
build_citations_by_year(ps) ==
    Try(ByYear(ps), LAMBDA by_year :
        PyList(Vals(Sorted([i \in 1..Len(by_year.l) |->
                               [key |-> <<by_year.l[i].year>>, val |-> by_year.l[i]]]))))

\* as PaperKey, without the citations
PaperKey_year_only(p) == <<Or(Get(p, "year"), PyInt(0)).i>>

\* the key of main's sort: ((p.get("year") or 0), (p.get("citations") or 0))
PaperKey(p) == <<Or(Get(p, "year"), PyInt(0)).i, Or(Get(p, "citations"), PyInt(0)).i>>

\* papers.sort(key=..., reverse=True)
SortPapers(ps) ==
    Vals(SortedReverse([i \in 1..Len(ps) |-> [key |-> PaperKey(ps[i]), val |-> ps[i]]]))

\* sum(int(p.get("citations") or 0) for p in papers)
RECURSIVE TotalCitations(_)
TotalCitations(ps) ==
    IF ps = <<>> THEN 0
    ELSE int(Or(Get(Head(ps), "citations"), PyInt(0))).i + TotalCitations(Tail(ps))

-----------------------------------------------------------------------------
(* main *)

\* os.getenv("OPENALEX_AUTHOR_ID", "A5042578790")
GetenvAuthorId == IF IsNone(env) THEN PyStr(DEFAULT_AUTHOR_ID) ELSE env

\* an uncaught exception out of fn ends the process
Crash(fn) == pc' = "crashed" /\ traceback' = fn

\* lines 445-446
ReadAuthorId ==
    /\ pc = "start"
    /\ \E id \in {normalize_author_id(GetenvAuthorId)} :
          IF IsRaise(id)
          THEN Crash("normalize_author_id") /\ UNCHANGED author_id
          ELSE pc' = "fetch" /\ author_id' = id /\ UNCHANGED traceback
    /\ UNCHANGED <<env, api, raw_works, works, papers, total_citations,
                   citations_by_year, metrics_file>>

\* line 448: fetch_all_works_for_author concatenates the pages of results;
\* raise_for_status raises on an HTTP error
Fetch ==
    /\ pc = "fetch"
    /\ IF api.ok
       THEN pc' = "dedupe" /\ raw_works' = api.results /\ UNCHANGED traceback
       ELSE Crash("fetch_all_works_for_author") /\ UNCHANGED raw_works
    /\ UNCHANGED <<env, api, author_id, works, papers, total_citations,
                   citations_by_year, metrics_file>>

\* line 449
Dedupe ==
    /\ pc = "dedupe"
    /\ \E r \in {dedupe_works(raw_works)} :
          IF IsRaise(r)
          THEN Crash("dedupe_works") /\ UNCHANGED works
          ELSE pc' = "normalize" /\ works' = r.l /\ UNCHANGED traceback
    /\ UNCHANGED <<env, api, author_id, raw_works, papers, total_citations,
                   citations_by_year, metrics_file>>

\* line 451
Normalize ==
    /\ pc = "normalize"
    /\ \E r \in {NormalizeAll(works, author_id.s)} :
          IF IsRaise(r)
          THEN Crash("normalize_work") /\ UNCHANGED papers
          ELSE pc' = "sort" /\ papers' = r.l /\ UNCHANGED traceback
    /\ UNCHANGED <<env, api, author_id, raw_works, works, total_citations,
                   citations_by_year, metrics_file>>

\* line 454
Sort ==
    /\ pc = "sort"
    /\ papers' = SortPapers(papers)
    /\ pc' = "aggregate"
    /\ UNCHANGED <<env, api, author_id, raw_works, works, total_citations,
                   citations_by_year, metrics_file, traceback>>

\* lines 456-457
Aggregate ==
    /\ pc = "aggregate"
    /\ \E r \in {build_citations_by_year(papers)} :
          IF IsRaise(r)
          THEN Crash("build_citations_by_year")
               /\ UNCHANGED <<total_citations, citations_by_year>>
          ELSE /\ pc' = "write"
               /\ total_citations' = TotalCitations(papers)
               /\ citations_by_year' = r.l
               /\ UNCHANGED traceback
    /\ UNCHANGED <<env, api, author_id, raw_works, works, papers, metrics_file>>

\* lines 459-474: the report, without its timestamp
WriteReport ==
    /\ pc = "write"
    /\ metrics_file' = PyDict([author_openalex_id |-> author_id,
                               papers_tracked |-> Len(papers),
                               total_citations |-> total_citations,
                               citations_by_year |-> citations_by_year,
                               works |-> papers])
    /\ pc' = "done"
    /\ UNCHANGED <<env, api, author_id, raw_works, works, papers, total_citations,
                   citations_by_year, traceback>>

Next ==
    \/ ReadAuthorId
    \/ Fetch
    \/ Dedupe
    \/ Normalize
    \/ Sort
    \/ Aggregate
    \/ WriteReport

-----------------------------------------------------------------------------
(* Inputs: the environment variable and the records the API returns *)

MaxWorks == 3

ListsUpTo(S, n) == UNION {[1..k -> S] : k \in 0..n}

\* unset, empty, blank, the bare URL prefix, a lower-case id
EnvValues ==
    {PyNone, PyStr(<<>>), PyStr(<<" ">>), PyStr(OPENALEX_PREFIX), PyStr(<<"a","7">>)}

\* work with work[k] = v
With(work, k, v) == PyDict((k :> v) @@ work.d)

Source(type) == PyDict([source |-> PyDict([type |-> PyStr(type), display_name |-> PyStr(type)])])
Author(id, name) == PyDict([author |-> PyDict([id |-> PyStr(id), display_name |-> PyStr(name)])])

JOURNAL == <<"j","o","u","r","n","a","l">>
DOI_A == <<"1","0",".","1","/","a">>
DOI_B == <<"1","0",".","1","/","b">>
HAL_X == HAL_PMH \o <<"x">>
ANN == <<"A","n","n">>
SELF_URL == OPENALEX_PREFIX \o <<"A","7">>

\* a record without identifiers: title, year, one author
BaseWork ==
    PyDict([title |-> PyStr(<<"t","1">>),
            publication_year |-> PyInt(2020),
            authorships |-> PyList(<<Author(OPENALEX_PREFIX \o <<"A","1">>, ANN)>>)])

Rec(base, cites, type) ==
    With(With(base, "cited_by_count", PyInt(cites)), "primary_location", Source(type))

WithDoi(work, doi) == With(work, "doi", PyStr(DOI_HTTPS \o doi))
WithYear(work, y) == With(work, "publication_year", y)

\* duplicates of one work under a DOI, a second DOI with the same title, year and
\* author, records without a DOI that share a fuzzy key, and a repository mirror
DedupeCatalogue ==
    { WithDoi(Rec(BaseWork, 10, REPOSITORY), DOI_A),
      WithDoi(Rec(BaseWork, 4, JOURNAL), DOI_A),
      WithDoi(Rec(BaseWork, 10, JOURNAL), DOI_A),
      WithYear(WithDoi(Rec(BaseWork, 10, JOURNAL), DOI_A), PyInt(2021)),
      WithDoi(Rec(BaseWork, 4, JOURNAL), DOI_B),
      Rec(BaseWork, 5, JOURNAL),
      Rec(BaseWork, 5, REPOSITORY),
      WithYear(Rec(BaseWork, 7, JOURNAL), PyNone),
      With(WithYear(Rec(BaseWork, 2, REPOSITORY), PyInt(2021)),
           "locations", PyList(<<PyDict([id |-> PyStr(HAL_X)])>>)) }

\* one DOI written in the ways the API and hand-edited records write it, and a second DOI
DoiStrings ==
    { DOI_A,
      DOI_HTTPS \o DOI_A,
      Upper(DOI_HTTPS \o DOI_A),
      DOI_HTTP \o DOI_A,
      DOI_SCHEME \o DOI_A,
      <<" ">> \o DOI_HTTPS \o DOI_A \o <<" ">>,
      DOI_SCHEME \o <<" ">> \o DOI_A,
      DOI_HTTPS \o DOI_B }

DoiCatalogue ==
    { With(Rec(BaseWork, 4, JOURNAL), "doi", PyStr(d)) : d \in DoiStrings }
    \cup { With(Rec(BaseWork, 4, JOURNAL), "ids", PyDict([doi |-> PyStr(DOI_HTTPS \o DOI_A)])) }

Ranked(name, relevance) == PyDict([display_name |-> PyStr(name), score |-> relevance])

\* a record with every field normalize_work reads
RichWork ==
    PyDict([id |-> PyStr(OPENALEX_PREFIX \o <<"W","1">>),
            doi |-> PyStr(DOI_HTTPS \o DOI_A),
            ids |-> PyDict([doi |-> PyStr(DOI_HTTPS \o DOI_A)]),
            title |-> PyStr(<<" ","t","1">>),
            publication_year |-> PyInt(2020),
            cited_by_count |-> PyInt(4),
            type |-> PyStr(JOURNAL),
            primary_location |-> Source(JOURNAL),
            open_access |-> PyDict([is_oa |-> PyBool(TRUE), oa_status |-> PyStr(<<"G","o","l","d">>)]),
            topics |-> PyList(<<Ranked(<<"x">>, PyInt(1)), Ranked(<<"y">>, PyInt(2))>>),
            keywords |-> PyList(<<Ranked(<<"k">>, PyInt(1))>>),
            authorships |-> PyList(<<Author(SELF_URL, <<"m","e">>),
                                     Author(OPENALEX_PREFIX \o <<"A","1">>, <<"a","n","n"," "," ","b">>)>>)])

\* RichWork without identifiers, so that its key is the fuzzy one
NoIdWork ==
    PyDict([title |-> PyStr(<<"t","1">>), publication_year |-> PyInt(2020),
            cited_by_count |-> PyInt(4)])

\* records with a field missing, null or of another type than the API documents
MalformedCatalogue ==
    { RichWork,
      EmptyDict,
      With(RichWork, "title", PyInt(5)),
      With(RichWork, "ids", PyStr(<<"x">>)),
      With(RichWork, "primary_location", PyStr(<<"x">>)),
      With(RichWork, "topics", PyList(<<PyNone>>)),
      With(RichWork, "topics", PyList(<<Ranked(<<"x">>, PyNone), Ranked(<<"y">>, PyInt(2))>>)),
      With(RichWork, "keywords", PyList(<<Ranked(<<"k">>, PyStr(<<"h","i">>)),
                                         Ranked(<<"l">>, PyInt(2))>>)),
      With(RichWork, "authorships", PyList(<<PyNone>>)),
      With(NoIdWork, "authorships", PyList(<<PyNone>>)),
      With(NoIdWork, "locations", PyList(<<PyNone>>)),
      With(RichWork, "cited_by_count", PyStr(<<"a","b","c">>)),
      With(RichWork, "cited_by_count", PyStr(<<"1","2">>)),
      With(RichWork, "cited_by_count", PyInt(0 - 3)),
      With(RichWork, "cited_by_count", PyNone) }

InitWith(catalogue) ==
    /\ env \in EnvValues
    /\ api \in {[ok |-> FALSE, results |-> <<>>]}
               \cup {[ok |-> TRUE, results |-> l] : l \in ListsUpTo(catalogue, MaxWorks)}
    /\ pc = "start"
    /\ author_id = PyNone
    /\ raw_works = <<>>
    /\ works = <<>>
    /\ papers = <<>>
    /\ total_citations = 0
    /\ citations_by_year = <<>>
    /\ metrics_file = PyNone
    /\ traceback = ""

Init == InitWith(DedupeCatalogue)
InitDoi == InitWith(DoiCatalogue)
InitMalformed == InitWith(MalformedCatalogue)

Spec == Init /\ [][Next]_vars
SpecDoi == InitDoi /\ [][Next]_vars
SpecMalformed == InitMalformed /\ [][Next]_vars

-----------------------------------------------------------------------------
(* Properties *)

Fetched == pc \notin {"start", "fetch"} /\ traceback # "fetch_all_works_for_author"
\* dedupe_works has just returned: works is its result for raw_works (main assigns
\* neither of them again)
Deduped == pc = "normalize"
Normalized == pc \in {"sort", "aggregate", "write", "done"}
Aggregated == pc \in {"write", "done"}

\* the records the catalogue of duplicates is built from
RepoTenCites == WithDoi(Rec(BaseWork, 10, REPOSITORY), DOI_A)
JournalFourCites == WithDoi(Rec(BaseWork, 4, JOURNAL), DOI_A)
OtherDoiSameTitle == WithDoi(Rec(BaseWork, 4, JOURNAL), DOI_B)

\* the identity keys of the records of a list, position by position
KeysOf(ws) == [j \in 1..Len(ws) |-> IdentityKey(ws[j])]

\* C1: dedupe_works is idempotent: run on its own output it returns the same records in
\* the same order, every identity-key group of that output having exactly one member.
C1_DedupeIdempotent ==
    Deduped =>
        /\ dedupe_works(works) = PyList(works)
        /\ \E keys \in {KeysOf(works)} :
               \A i, j \in 1..Len(works) : i # j => keys[i] # keys[j]

\* three records went in and two groups came out, one of them merged from two records
C1_Witness ==
    /\ pc = "normalize"
    /\ Len(raw_works) = 3
    /\ Len(works) = 2
    /\ IdentityKey(raw_works[1]) = IdentityKey(raw_works[3])
    /\ IdentityKey(raw_works[1]) # IdentityKey(raw_works[2])

\* the documented ranking tuple, read off the record's fields
DocumentedRank(w) ==
    <<IF Truthy(_get_doi(w)) THEN 1 ELSE 0,
      Get(w, "cited_by_count").i,
      IF Get(Get(Get(w, "primary_location"), "source"), "type") = PyStr(REPOSITORY)
      THEN 0 ELSE 1>>

RankLess(a, b) ==
    \/ a[1] < b[1]
    \/ a[1] = b[1] /\ a[2] < b[2]
    \/ a[1] = b[1] /\ a[2] = b[2] /\ a[3] < b[3]

\* the identity key and the rank of every record of the input
KeysAndRanks ==
    [j \in 1..Len(raw_works) |->
        [key |-> IdentityKey(raw_works[j]), rank |-> DocumentedRank(raw_works[j])]]

\* position j holds a maximum of its group, and the first one
FirstMaximum(t, j) ==
    \A m \in 1..Len(raw_works) :
        t[m].key = t[j].key =>
            /\ ~RankLess(t[j].rank, t[m].rank)
            /\ m < j => RankLess(t[m].rank, t[j].rank)

\* C2: the winner of every identity-key group is a maximum of the group under
\* (has_doi, cited_by_count, publisher_bonus) compared lexicographically, citations
\* before the bonus, and among several maxima the one that comes first in the input:
\* the output holds the first maximum of every group and nothing else.
C2_WinnerIsFirstMaximum ==
    Deduped =>
        \E t \in {KeysAndRanks} :
            /\ \A i \in 1..Len(works) :
                   \E j \in 1..Len(raw_works) :
                       works[i] = raw_works[j] /\ FirstMaximum(t, j)
            /\ \A j \in 1..Len(raw_works) :
                   FirstMaximum(t, j) => \E i \in 1..Len(works) : works[i] = raw_works[j]

\* the 4-citation journal record and the 10-citation repository record of one DOI:
\* the repository record wins
C2_Witness ==
    /\ pc = "normalize"
    /\ raw_works = <<JournalFourCites, RepoTenCites>>
    /\ works = <<RepoTenCites>>

\* the DOI string of a record, from the top-level field or else from ids.doi
DoiStringOf(w) ==
    IF IsStr(Get(w, "doi")) THEN Get(w, "doi").s
    ELSE IF IsDict(Get(w, "ids")) /\ IsStr(Get(Get(w, "ids"), "doi"))
    THEN Get(Get(w, "ids"), "doi").s
    ELSE <<>>

\* s without the one prefix it starts with, if any
WithoutPrefix(s) ==
    IF StartsWith(s, DOI_HTTPS) THEN SubSeq(s, Len(DOI_HTTPS) + 1, Len(s))
    ELSE IF StartsWith(s, DOI_HTTP) THEN SubSeq(s, Len(DOI_HTTP) + 1, Len(s))
    ELSE IF StartsWith(s, DOI_SCHEME) THEN SubSeq(s, Len(DOI_SCHEME) + 1, Len(s))
    ELSE s

\* the DOI a string denotes: case, prefix and surrounding whitespace set aside
DenotedDoi(s) == Strip(WithoutPrefix(Lower(Strip(s))))

HasDoiPrefix(s) ==
    StartsWith(s, DOI_HTTPS) \/ StartsWith(s, DOI_HTTP) \/ StartsWith(s, DOI_SCHEME)

\* a ("doi", value) key whose value is lower-case, prefix-free and trimmed
IsNormalDoiKey(k) ==
    /\ k.t = "key"
    /\ k.tag = "doi"
    /\ k.v = Lower(k.v)
    /\ k.v = Strip(k.v)
    /\ ~HasDoiPrefix(k.v)

\* C3: two records whose DOI strings denote the same non-empty DOI, differing only in
\* case, prefix, surrounding whitespace or the field that holds the string, get the
\* same ("doi", value) key, its value lower-case, prefix-free and trimmed.
C3_SameDoiSameKey ==
    Fetched =>
        \A i, j \in 1..Len(raw_works) :
            ( /\ DenotedDoi(DoiStringOf(raw_works[i])) # <<>>
              /\ DenotedDoi(DoiStringOf(raw_works[i]))
                     = DenotedDoi(DoiStringOf(raw_works[j])) )
            => /\ IdentityKey(raw_works[i]) = IdentityKey(raw_works[j])
               /\ IsNormalDoiKey(IdentityKey(raw_works[i]))

\* C4: dedupe_works, normalize_work and build_citations_by_year never raise, whatever
\* fields of a raw record are absent or wrongly typed.
C4_NeverRaises ==
    traceback \notin {"dedupe_works", "normalize_work", "build_citations_by_year"}

AuthorIdMissing == IsNone(env) \/ (IsStr(env) /\ Strip(env.s) = <<>>)

\* C5: when the author identifier is not supplied (variable unset, empty or blank) main
\* aborts before fetching, deduplicating or writing: no report file is produced.
C5_NoReportWithoutAuthorId ==
    AuthorIdMissing => IsNone(metrics_file) /\ pc \in {"start", "crashed"}

\* C6: the citations of a canonical work are a non-negative integer, 0 when the raw
\* cited_by_count is missing or cannot be read as an integer.  (Before the sort,
\* papers[i] is the canonical work of works[i].)
C6_CitationsNonNegative ==
    pc = "sort" =>
        \A i \in 1..Len(papers) :
            /\ IsInt(papers[i].d.citations)
            /\ papers[i].d.citations.i >= 0
            /\ ( \/ IsNone(Get(works[i], "cited_by_count"))
                 \/ IsRaise(int(Get(works[i], "cited_by_count"))) )
               => papers[i].d.citations.i = 0

\* C7: the doi of a canonical work is None or a DOI string without any of the prefixes
\* https://doi.org/, http://doi.org/, doi:, whichever field supplied it.
C7_CanonicalDoiPrefixFree ==
    Normalized =>
        \A i \in 1..Len(papers) :
            \/ IsNone(papers[i].d.doi)
            \/ IsStr(papers[i].d.doi) /\ ~HasDoiPrefix(papers[i].d.doi.s)

\* the sum of the citations of the papers at the positions I
RECURSIVE CitationSum(_, _)
CitationSum(ps, I) ==
    IF I = {} THEN 0
    ELSE LET i == CHOOSE x \in I : TRUE
         IN ps[i].d.citations.i + CitationSum(ps, I \ {i})

WithYearAt(ps, y) == {i \in 1..Len(ps) : ps[i].d.year = PyInt(y)}
YearsOf(ps) == {ps[i].d.year.i : i \in {j \in 1..Len(ps) : IsInt(ps[j].d.year)}}

\* C8: total_citations is the sum of the citations of all works; citations_by_year has
\* exactly one entry per year occurring among the works that have one, in strictly
\* ascending order of year, each the sum of the citations of the works of that year.
C8_AggregatesAreSums ==
    Aggregated =>
        /\ total_citations = CitationSum(papers, 1..Len(papers))
        /\ {citations_by_year[k].year : k \in 1..Len(citations_by_year)} = YearsOf(papers)
        /\ \A k \in 1..(Len(citations_by_year) - 1) :
               citations_by_year[k].year < citations_by_year[k + 1].year
        /\ \A k \in 1..Len(citations_by_year) :
               citations_by_year[k].citations
                   = CitationSum(papers, WithYearAt(papers, citations_by_year[k].year))

\* two works of one year, summed into one entry, and a work without a year in no entry
C8_Witness ==
    /\ pc = "write"
    /\ Len(papers) = 3
    /\ IsNone(papers[3].d.year)
    /\ papers[1].d.year = papers[2].d.year
    /\ Len(citations_by_year) = 1
    /\ citations_by_year[1].citations = papers[1].d.citations.i + papers[2].d.citations.i
    /\ total_citations = citations_by_year[1].citations + papers[3].d.citations.i
    /\ papers[3].d.citations.i > 0

YearOrZero(p) == IF IsNone(p.d.year) THEN 0 ELSE p.d.year.i

\* C9: in the report, of two adjacent works the earlier has the greater or equal year, a
\* missing year counting as 0, and with equal years the greater or equal citations.
C9_ReportIsOrdered ==
    pc = "done" =>
        \A i \in 1..(Len(metrics_file.d.works) - 1) :
            LET p == metrics_file.d.works[i]
                q == metrics_file.d.works[i + 1]
            IN /\ YearOrZero(p) >= YearOrZero(q)
               /\ YearOrZero(p) = YearOrZero(q) => p.d.citations.i >= q.d.citations.i

\* dedupe_works emitted the work without a year first and the less cited of two works of
\* one year before the more cited; the report has them the other way round
C9_Witness ==
    /\ pc = "done"
    /\ Len(works) = 3
    /\ IsNone(Get(works[1], "publication_year"))
    /\ Get(works[2], "publication_year") = Get(works[3], "publication_year")
    /\ Get(works[2], "cited_by_count").i < Get(works[3], "cited_by_count").i
    /\ IsNone(metrics_file.d.works[3].d.year)
    /\ metrics_file.d.works[1].d.citations.i > metrics_file.d.works[2].d.citations.i

\* the normalized DOI of every record of a list, position by position
DoisOf(ws) == [j \in 1..Len(ws) |-> _get_doi(ws[j])]

\* C10: two records of one identity-key group have both no DOI or the same normalized
\* DOI, whatever their titles, years and authors; so every normalized DOI of the input
\* is the DOI of exactly one record of the output.
C10_DoisNeverMerged ==
    Deduped =>
        \E keys \in {KeysOf(raw_works)} :
            \E dois \in {DoisOf(raw_works)} :
                \E kept \in {DoisOf(works)} :
                    /\ \A i, j \in 1..Len(raw_works) :
                           keys[i] = keys[j] => dois[i] = dois[j]
                    /\ \A j \in 1..Len(raw_works) :
                           Truthy(dois[j])
                               => Cardinality({i \in 1..Len(works) : kept[i] = dois[j]}) = 1

\* two records with the same title, year and first author and different DOIs: both stay
C10_Witness ==
    /\ pc = "normalize"
    /\ raw_works = <<JournalFourCites, OtherDoiSameTitle>>
    /\ works = raw_works
    /\ _norm_title(Get(raw_works[1], "title")) = _norm_title(Get(raw_works[2], "title"))
    /\ _first_author(raw_works[1]) = _first_author(raw_works[2])

====
